---- MODULE Spec2Model ----
(***************************************************************************)
(* A model of the cloudflare-images client library:                        *)
(*   - CloudflareImagesAPI    (src/cloudflare_images/main.py)              *)
(*   - CloudflareImagesAPIv1  (src/cloudflare_images/api.py)               *)
(*   - LimitedStorageCloudflareImages (src/cloudflare_images/django.py)    *)
(*                                                                         *)
(* The state is the process environment the settings classes read, the    *)
(* client instances constructed so far, the storage adapters, and, for    *)
(* every call site, the call it is running or has last finished together  *)
(* with the HTTP requests that call has issued.  The remote service is    *)
(* the environment of the model: each request gets an outcome (a response *)
(* or a transport failure) chosen nondeterministically.  The store        *)
(* specifications instead answer DELETE and POST from the images the      *)
(* service holds, which they keep in remote.                               *)
(***************************************************************************)
EXTENDS Integers, Sequences, FiniteSets, TLC

VARIABLES
    env,       \* os.environ restricted to the aliases the settings read
    clients,   \* the client instances constructed so far; the index is the identity
    storages,  \* indices of the clients held as `api` by a storage adapter
    call,      \* per call site: the running or last finished call
    remote     \* the images the remote service stores, where a specification tracks them

vars == <<env, clients, storages, call, remote>>

----------------------------------------------------------------------------
(* Bounds of the model and the input sets the actions draw from.           *)

\* Instances kept alive at the same time.
MaxClients == 2

Sites == {"s1", "s2"}
\* The call sites that run in the sequential specification.
SeqSites == {"s1"}

ImgIds == {"hi-bob", "sample-img"}
Images == {"PNG-bytes"}
Variants == {"public", "avatar"}
PerPages == {5, 9, 10, 10000, 10001}
SortOrders == {"asc", "desc", "upward"}
\* continuation_token: str | None; <<>> is None, <<t>> is the string t.
ContinuationTokens == {<<>>, <<"">>, <<"next1">>}
BatchTokens == {"BT1"}

----------------------------------------------------------------------------
(* Program constants.                                                      *)

CF_API == "https://api.cloudflare.com"
CF_BATCH == "https://batch.imagedelivery.net"
CF_DELIVER == "https://imagedelivery.net"

OK == 200
NOT_FOUND == 404
DefaultTimeout == 60
PerPageMin == 10
PerPageMax == 10000

MainCls == "CloudflareImagesAPI"
V1Cls == "CloudflareImagesAPIv1"
Classes == {MainCls, V1Cls}

\* validation_alias of the three fields declared with default=...
Required == {"CF_ACCT_ID", "CF_IMG_HASH", "CF_IMG_TOKEN"}

----------------------------------------------------------------------------
(* Settings resolution and validation at construction.                     *)

\* What the doctests put in os.environ.
EnvValues == ("CF_ACCT_ID" :> "ABC") @@ ("CF_IMG_HASH" :> "DEF") @@ ("CF_IMG_TOKEN" :> "XYZ")

NoKwargs == <<>>
ExplicitKwargs ==
    ("CF_ACCT_ID" :> "ACC2") @@ ("CF_IMG_HASH" :> "H2") @@ ("CF_IMG_TOKEN" :> "T2")
    @@ ("CLOUDFLARE_CLIENT_API_VERSION" :> "v5")
    @@ ("CLOUDFLARE_IMAGES_API_VERSION" :> "v3")
    @@ ("CF_IMG_TOKEN_TIMEOUT" :> 5)
EmptyKwargs == {(k :> "") : k \in Required}
BatchKwargs == ("is_batch" :> TRUE)

\* Keyword arguments a caller passes to the constructor of class cls.
InitKwargs(cls) ==
    {NoKwargs, ExplicitKwargs} \cup EmptyKwargs
    \cup (IF cls = MainCls THEN {BatchKwargs, BatchKwargs @@ ExplicitKwargs} ELSE {})

\* A field's value: the keyword argument, else the environment, else the default.
FieldValue(kw, e, alias, default) ==
    IF alias \in DOMAIN kw THEN kw[alias]
    ELSE IF alias \in DOMAIN e THEN e[alias]
    ELSE default

\* The mutant reports only the first required field found missing.
FirstMissingOnly(kw, e) ==
    LET miss == {a \in Required : a \notin DOMAIN kw /\ a \notin DOMAIN e}
    IN  IF "CF_ACCT_ID" \in miss THEN {[loc |-> "CF_ACCT_ID", type |-> "missing"]}
        ELSE IF "CF_IMG_HASH" \in miss THEN {[loc |-> "CF_IMG_HASH", type |-> "missing"]}
        ELSE {[loc |-> a, type |-> "missing"] : a \in miss}

\* The mutant also rejects a required field given as the empty string.
RejectEmpty(kw, e) ==
    {[loc |-> a, type |-> "missing"] :
        a \in {r \in Required : FieldValue(kw, e, r, "") = ""}}

\* The errors of the ValidationError construction raises: one "Field required"
\* entry per field declared with default=... that no source provides.  A str
\* field carries no length constraint: the empty string is a value.
ValidationErrors(kw, e) ==
    {[loc |-> a, type |-> "missing"] :
        a \in {r \in Required : r \notin DOMAIN kw /\ r \notin DOMAIN e}}

\* The instance construction yields when validation passes.
NewClient(cls, kw, e) ==
    [cls            |-> cls,
     account_id     |-> FieldValue(kw, e, "CF_ACCT_ID", ""),
     cf_img_hash    |-> FieldValue(kw, e, "CF_IMG_HASH", ""),
     api_token      |-> FieldValue(kw, e, "CF_IMG_TOKEN", ""),
     client_api_ver |-> FieldValue(kw, e, "CLOUDFLARE_CLIENT_API_VERSION", "v4"),
     images_api_ver |-> FieldValue(kw, e, "CLOUDFLARE_IMAGES_API_VERSION", "v1"),
     timeout        |-> FieldValue(kw, e, "CF_IMG_TOKEN_TIMEOUT", DefaultTimeout),
     is_batch       |-> IF cls = MainCls
                        THEN FieldValue(kw, e, "is_batch", FALSE)
                        ELSE FALSE]

----------------------------------------------------------------------------
(* Endpoints and delivery URLs.                                            *)

\* CF.add_account_endpoint of the start_cloudflare settings base, as the
\* doctests of base_api and v2 show it: the account root of the client API
\* version, followed by the path.
add_account_endpoint(c, path) ==
    CF_API \o "/client/" \o c.client_api_ver \o "/accounts" \o path

\* CF.set_bearer_auth, as the class doctest shows it.
set_bearer_auth(token) == [Authorization |-> "Bearer " \o token]

\* The mutant fixes the images version segment.
base_api_fixed_ver(c) ==
    IF c.is_batch THEN CF_BATCH
    ELSE add_account_endpoint(c, "/" \o c.account_id \o "/images/v1")

base_api(c) ==
    IF c.is_batch
    THEN CF_BATCH
    ELSE add_account_endpoint(c, "/" \o c.account_id \o "/images/" \o c.images_api_ver)

v2(c) == add_account_endpoint(c, "/" \o c.account_id \o "/images/v2")

base_delivery(c) == CF_DELIVER \o "/" \o c.cf_img_hash

\* The mutant serves the public variant whatever variant is asked for.
url_public_only(c, img_id, variant) == base_delivery(c) \o "/" \o img_id \o "/public"

url(c, img_id, variant) == base_delivery(c) \o "/" \o img_id \o "/" \o variant

----------------------------------------------------------------------------
(* Requests and their outcomes.                                            *)

NoFields == <<>>

\* One call of httpx.Client.get / .patch / .delete / .post.
Request(method, u, headers, data, files) ==
    [method |-> method, url |-> u, headers |-> headers, data |-> data, files |-> files]

\* JSON values.
JNull == [t |-> "null"]
JString(v) == [t |-> "string", v |-> v]
JObject(members) == [t |-> "object", members |-> members]

\* Response bodies: text that is not JSON, or a JSON document.
NotJson == [json |-> FALSE]
Json(doc) == [json |-> TRUE, doc |-> doc]

\* The envelopes the batch-token endpoint may answer with.
TokenBodies ==
    {NotJson,
     Json(JObject(("success" :> JNull))),
     Json(JObject(("result" :> JNull))),
     Json(JObject(("result" :> JObject(("expiresAt" :> JString("2026")))))),
     Json(JObject(("result" :> JString("BT1")))),
     Json(JObject(("result" :> JObject(("token" :> JNull)))))}
    \cup {Json(JObject(("result" :> JObject(("token" :> JString(t)))))) : t \in BatchTokens}

Statuses == {OK, NOT_FOUND, 500}
\* httpx.TransportError: a timeout, a refused or a broken connection.
TransportErrors == {"TransportError"}

Response(status, body) == [kind |-> "response", status_code |-> status, body |-> body]
Failure(exc) == [kind |-> "error", exc |-> exc]

\* What one request can end in: a response of any status, or httpx raising.
Outcomes ==
    {Response(st, NotJson) : st \in Statuses} \cup {Failure(x) : x \in TransportErrors}
TokenOutcomes ==
    {Response(st, b) : st \in {OK, 500}, b \in TokenBodies}
    \cup {Failure(x) : x \in TransportErrors}
\* exists() is also tried on statuses that are neither 200, 404 nor an error.
ExistsOutcomes == Outcomes \cup {Response(st, NotJson) : st \in {204, 301}}

----------------------------------------------------------------------------
(* The request each method issues.  get, delete, post of                   *)
(* CloudflareImagesAPIv1 have the bodies of get_image_details,             *)
(* delete_image, upload_image.                                             *)

get_usage_statistics(c) ==
    Request("GET", base_api(c) \o "/stats", set_bearer_auth(c.api_token),
            NoFields, NoFields)

get_batch_token(c) ==
    Request("GET", base_api(c) \o "/batch_token", set_bearer_auth(c.api_token),
            NoFields, NoFields)

get_image_details(c, img_id) ==
    Request("GET", base_api(c) \o "/" \o img_id, set_bearer_auth(c.api_token),
            NoFields, NoFields)

update_image(c, img_id) ==
    Request("PATCH", base_api(c) \o "/" \o img_id, set_bearer_auth(c.api_token),
            NoFields, NoFields)

delete_image(c, img_id) ==
    Request("DELETE", base_api(c) \o "/" \o img_id, set_bearer_auth(c.api_token),
            NoFields, NoFields)

\* The mutant posts to the image's own path.
upload_image_to_id(c, img_id, img) ==
    Request("POST", base_api(c) \o "/" \o img_id, set_bearer_auth(c.api_token),
            ("id" :> img_id), ("file" :> <<img_id, img>>))

upload_image(c, img_id, img) ==
    Request("POST", base_api(c), set_bearer_auth(c.api_token),
            ("id" :> img_id), ("file" :> <<img_id, img>>))

\* The mutant accepts any page size.
list_images_error_no_range(per_page, sort_order) ==
    IF sort_order \notin {"asc", "desc"}
    THEN <<"Improper sort_order='" \o sort_order \o "'">>
    ELSE <<>>

\* The local checks of list_images: <<message>> of the exception raised, or
\* <<>> when the arguments pass.
list_images_error(per_page, sort_order) ==
    IF per_page < PerPageMin \/ per_page > PerPageMax
    THEN <<"Improper per_page=" \o ToString(per_page)>>
    ELSE IF sort_order \notin {"asc", "desc"}
    THEN <<"Improper sort_order='" \o sort_order \o "'">>
    ELSE <<>>

\* urlencode(params) for the values drawn here, none of which needs quoting.
\* None and the empty string are both falsy: no continuation_token then.
urlencode(per_page, sort_order, continuation_token) ==
    "per_page=" \o ToString(per_page) \o "&sort_order=" \o sort_order
    \o (IF continuation_token # <<>> /\ continuation_token[1] # ""
        THEN "&continuation_token=" \o continuation_token[1]
        ELSE "")

list_images(c, per_page, sort_order, continuation_token) ==
    Request("GET", v2(c) \o "?" \o urlencode(per_page, sort_order, continuation_token),
            set_bearer_auth(c.api_token), NoFields, NoFields)

----------------------------------------------------------------------------
(* Calls.                                                                  *)

NoResult == [kind |-> "none"]
Return(v) == [kind |-> "return", value |-> v]
Raise(exc, info) == [kind |-> "raise", exc |-> exc, info |-> info]

\* reqs are the requests the call has issued, outs the outcome of each.
Idle == [op |-> "none", pc |-> "idle", self |-> 0, args |-> <<>>,
         reqs |-> <<>>, outs |-> <<>>, result |-> NoResult]

\* A call that has returned or raised.
Finished(op, self, args, reqs, outs, result) ==
    [op |-> op, pc |-> "done", self |-> self, args |-> args,
     reqs |-> reqs, outs |-> outs, result |-> result]

\* A call waiting for its next request to be answered.
Running(op, self, args, reqs, outs) ==
    [op |-> op, pc |-> "mid", self |-> self, args |-> args,
     reqs |-> reqs, outs |-> outs, result |-> NoResult]

\* A site may start a call when it is not inside one.
Free(s) == call[s].pc # "mid"

\* The result of a method that returns what the httpx call returns.
Raw(o) == IF o.kind = "response" THEN Return(o) ELSE Raise(o.exc, "transport")

----------------------------------------------------------------------------
(* Actions.                                                                *)

\* The environment gets all three credentials, as from a .env file.
LoadEnv ==
    /\ \A s \in Sites : Free(s)
    /\ env = <<>>
    /\ env' = EnvValues
    /\ UNCHANGED <<clients, storages, call, remote>>

\* os.environ[k] = v
SetEnv(k, v) ==
    /\ \A s \in Sites : Free(s)
    /\ k \notin DOMAIN env
    /\ env' = (k :> v) @@ env
    /\ UNCHANGED <<clients, storages, call, remote>>

\* cls(**kw): validation of the settings, then the new instance.
Construct(s, cls, kw) ==
    LET errs == ValidationErrors(kw, env)
        args == [kw |-> kw, env |-> env]
    IN  /\ Free(s)
        /\ IF errs # {}
           THEN /\ call' = [call EXCEPT ![s] =
                      Finished("__init__", 0, args, <<>>, <<>>, Raise("ValidationError", errs))]
                /\ UNCHANGED clients
           ELSE /\ Len(clients) < MaxClients
                /\ clients' = Append(clients, NewClient(cls, kw, env))
                /\ call' = [call EXCEPT ![s] =
                      Finished("__init__", 0, args, <<>>, <<>>, Return(Len(clients) + 1))]
        /\ UNCHANGED <<env, storages, remote>>

\* Reading the property base_api of a client.
Read_base_api(s, c) ==
    /\ Free(s)
    /\ c \in DOMAIN clients
    /\ call' = [call EXCEPT ![s] =
          Finished("base_api", c, <<>>, <<>>, <<>>, Return(base_api(clients[c])))]
    /\ UNCHANGED <<env, clients, storages, remote>>

\* Reading the property v2 of a client.
Read_v2(s, c) ==
    /\ Free(s)
    /\ c \in DOMAIN clients /\ clients[c].cls = MainCls
    /\ call' = [call EXCEPT ![s] =
          Finished("v2", c, <<>>, <<>>, <<>>, Return(v2(clients[c])))]
    /\ UNCHANGED <<env, clients, storages, remote>>

\* The mutant drops the token of the client once the request is answered.
Primitive_forgets_token(s, c, op, args, req, o) ==
    /\ Free(s)
    /\ c \in DOMAIN clients
    /\ call' = [call EXCEPT ![s] = Finished(op, c, args, <<req>>, <<o>>, Raw(o))]
    /\ clients' = [clients EXCEPT ![c].api_token = ""]
    /\ UNCHANGED <<env, storages, remote>>

\* A method that issues one request and returns what httpx returns.
Primitive(s, c, op, args, req, o) ==
    /\ Free(s)
    /\ c \in DOMAIN clients
    /\ call' = [call EXCEPT ![s] = Finished(op, c, args, <<req>>, <<o>>, Raw(o))]
    /\ UNCHANGED <<env, clients, storages, remote>>

Call_get_usage_statistics(s, c, o) ==
    /\ c \in DOMAIN clients /\ clients[c].cls = MainCls
    /\ Primitive(s, c, "get_usage_statistics", <<>>, get_usage_statistics(clients[c]), o)

Call_get_batch_token(s, c, o) ==
    /\ c \in DOMAIN clients /\ clients[c].cls = MainCls
    /\ Primitive(s, c, "get_batch_token", <<>>, get_batch_token(clients[c]), o)

Call_get_image_details(s, c, img_id, o) ==
    /\ c \in DOMAIN clients
    /\ Primitive(s, c, "get_image_details", [img_id |-> img_id],
                 get_image_details(clients[c], img_id), o)

Call_update_image(s, c, img_id, o) ==
    /\ c \in DOMAIN clients /\ clients[c].cls = MainCls
    /\ Primitive(s, c, "update_image", [img_id |-> img_id],
                 update_image(clients[c], img_id), o)

Call_delete_image(s, c, img_id, o) ==
    /\ c \in DOMAIN clients
    /\ Primitive(s, c, "delete_image", [img_id |-> img_id],
                 delete_image(clients[c], img_id), o)

Call_upload_image(s, c, img_id, img, o) ==
    /\ c \in DOMAIN clients
    /\ Primitive(s, c, "upload_image", [img_id |-> img_id, img |-> img],
                 upload_image(clients[c], img_id, img), o)

\* The mutant gives up when the DELETE is answered with an error status.
after_delete_check_status(op, c, args, req, o) ==
    IF o.kind = "error" THEN Finished(op, c, args, <<req>>, <<o>>, Raw(o))
    ELSE IF o.status_code >= 400 THEN Finished(op, c, args, <<req>>, <<o>>, Raw(o))
    ELSE Running(op, c, args, <<req>>, <<o>>)

\* The mutant returns the answer of the DELETE when the image was not found.
after_delete_stop_on_404(op, c, args, req, o) ==
    IF o.kind = "error" THEN Finished(op, c, args, <<req>>, <<o>>, Raw(o))
    ELSE IF o.status_code = NOT_FOUND THEN Finished(op, c, args, <<req>>, <<o>>, Raw(o))
    ELSE Running(op, c, args, <<req>>, <<o>>)

\* self.delete_image(img_id) inside delete_then_upload_image: an exception of
\* the httpx call ends the method; a response, whatever its status, is dropped.
after_delete(op, c, args, req, o) ==
    IF o.kind = "error"
    THEN Finished(op, c, args, <<req>>, <<o>>, Raw(o))
    ELSE Running(op, c, args, <<req>>, <<o>>)

\* delete_then_upload_image (upsert of CloudflareImagesAPIv1), first statement.
Upsert_delete(s, c, img_id, img, o) ==
    /\ Free(s)
    /\ c \in DOMAIN clients
    /\ call' = [call EXCEPT ![s] =
          after_delete("delete_then_upload_image", c, [img_id |-> img_id, img |-> img],
                       delete_image(clients[c], img_id), o)]
    /\ UNCHANGED <<env, clients, storages, remote>>

\* delete_then_upload_image, second statement: return self.upload_image(...).
Upsert_upload(s, o) ==
    /\ call[s].pc = "mid"
    /\ call[s].op = "delete_then_upload_image"
    /\ LET k == call[s]
       IN  call' = [call EXCEPT ![s] =
              Finished(k.op, k.self, k.args,
                       Append(k.reqs, upload_image(clients[k.self], k.args.img_id, k.args.img)),
                       Append(k.outs, o), Raw(o))]
    /\ UNCHANGED <<env, clients, storages, remote>>

Call_list_images(s, c, per_page, sort_order, continuation_token, o) ==
    LET err  == list_images_error(per_page, sort_order)
        args == [per_page |-> per_page, sort_order |-> sort_order,
                 continuation_token |-> continuation_token]
    IN  /\ Free(s)
        /\ c \in DOMAIN clients /\ clients[c].cls = MainCls
        /\ call' = [call EXCEPT ![s] =
              IF err # <<>>
              THEN Finished("list_images", c, args, <<>>, <<>>, Raise("Exception", err[1]))
              ELSE Finished("list_images", c, args,
                            <<list_images(clients[c], per_page, sort_order, continuation_token)>>,
                            <<o>>, Raw(o))]
        /\ UNCHANGED <<env, clients, storages, remote>>

\* j[key] in Python, for a JSON value j.
Subscript(j, key) ==
    IF j.t = "object"
    THEN IF key \in DOMAIN j.members
         THEN Return(j.members[key])
         ELSE Raise("KeyError", key)
    ELSE Raise("TypeError", key)

\* The mutant takes a missing result for an empty token instead of failing.
batch_token_lenient(o) ==
    IF o.kind = "error" THEN Raise(o.exc, "transport")
    ELSE IF ~o.body.json THEN Return(JString(""))
    ELSE LET r == Subscript(o.body.doc, "result")
         IN  IF r.kind = "raise" THEN Return(JString(""))
             ELSE IF Subscript(r.value, "token").kind = "raise" THEN Return(JString(""))
             ELSE Subscript(r.value, "token")

\* The try block of create_batch_api, given the outcome of get_batch_token:
\* res.json() and data["result"]["token"], or the exception raised on the way.
batch_token(o) ==
    IF o.kind = "error" THEN Raise(o.exc, "transport")
    ELSE IF ~o.body.json THEN Raise("JSONDecodeError", "json")
    ELSE LET r == Subscript(o.body.doc, "result")
         IN  IF r.kind = "raise" THEN r ELSE Subscript(r.value, "token")

\* The keyword arguments create_batch_api constructs the new client with.
batch_kwargs(token) == ("CF_IMG_TOKEN" :> token) @@ ("is_batch" :> TRUE)

\* The errors of CloudflareImagesAPI(CF_IMG_TOKEN=token, is_batch=True): a
\* token that is no string fails the str field; the other fields come from
\* the environment.
batch_errors(tok, e) ==
    ValidationErrors(("CF_IMG_TOKEN" :> ""), e)
    \cup (IF tok.t = "string" THEN {} ELSE {[loc |-> "CF_IMG_TOKEN", type |-> "string_type"]})

create_batch_api(s, c, o) ==
    LET t    == batch_token(o)
        req  == get_batch_token(clients[c])
        errs == batch_errors(t.value, env)
    IN  /\ Free(s)
        /\ c \in DOMAIN clients /\ clients[c].cls = MainCls
        /\ IF t.kind = "raise"
           THEN /\ call' = [call EXCEPT ![s] =
                      Finished("create_batch_api", c, <<>>, <<req>>, <<o>>,
                               Raise("Exception",
                                     [msg |-> "Could not generate batch token", context |-> t]))]
                /\ UNCHANGED clients
           ELSE IF errs # {}
           THEN /\ call' = [call EXCEPT ![s] =
                      Finished("create_batch_api", c, <<>>, <<req>>, <<o>>,
                               Raise("ValidationError", errs))]
                /\ UNCHANGED clients
           ELSE /\ Len(clients) < MaxClients
                /\ clients' = Append(clients, NewClient(MainCls, batch_kwargs(t.value.v), env))
                /\ call' = [call EXCEPT ![s] =
                      Finished("create_batch_api", c, <<>>, <<req>>, <<o>>,
                               Return(Len(clients) + 1))]
        /\ UNCHANGED <<env, storages, remote>>

\* LimitedStorageCloudflareImages(): self.api = CloudflareImagesAPIv1()
Storage_init(s) ==
    LET errs == ValidationErrors(NoKwargs, env)
        args == [kw |-> NoKwargs, env |-> env]
    IN  /\ Free(s)
        /\ IF errs # {}
           THEN /\ call' = [call EXCEPT ![s] =
                      Finished("Storage.__init__", 0, args, <<>>, <<>>,
                               Raise("ValidationError", errs))]
                /\ UNCHANGED <<clients, storages>>
           ELSE /\ Len(clients) < MaxClients
                /\ clients' = Append(clients, NewClient(V1Cls, NoKwargs, env))
                /\ storages' = storages \cup {Len(clients) + 1}
                /\ call' = [call EXCEPT ![s] =
                      Finished("Storage.__init__", 0, args, <<>>, <<>>,
                               Return(Len(clients) + 1))]
        /\ UNCHANGED <<env, remote>>

\* The mutant takes every status but 404 for "found".
exists_result_lenient(o) ==
    IF o.kind = "error" THEN Raw(o)
    ELSE IF o.status_code = NOT_FOUND THEN Return(FALSE)
    ELSE Return(TRUE)

\* What exists() makes of the outcome of self.api.get(name).
exists_result(o) ==
    IF o.kind = "error" THEN Raw(o)
    ELSE IF o.status_code = NOT_FOUND THEN Return(FALSE)
    ELSE IF o.status_code = OK THEN Return(TRUE)
    ELSE Raise("Exception", "Image name found but http status code is not OK.")

Storage_exists(s, st, name, o) ==
    /\ Free(s)
    /\ st \in storages
    /\ call' = [call EXCEPT ![s] =
          Finished("Storage.exists", st, [name |-> name],
                   <<get_image_details(clients[st], name)>>, <<o>>, exists_result(o))]
    /\ UNCHANGED <<env, clients, storages, remote>>

\* The optional argument variant of url: <<>> when it is left out.
VariantArgs == {<<>>} \cup {<<v>> : v \in Variants}

\* variant: str = "public"
variant_or_default(v) == IF v = <<>> THEN "public" ELSE v[1]

\* cf.url(img_id) and cf.url(img_id, variant): the string, and no request.
Call_url(s, c, img_id, v) ==
    /\ Free(s)
    /\ c \in DOMAIN clients
    /\ call' = [call EXCEPT ![s] =
          Finished("url", c, [img_id |-> img_id, variant |-> v], <<>>, <<>>,
                   Return(url(clients[c], img_id, variant_or_default(v))))]
    /\ UNCHANGED <<env, clients, storages, remote>>

\* LimitedStorageCloudflareImages.url(name): self.api.url(name)
Storage_url(s, st, name) ==
    /\ Free(s)
    /\ st \in storages
    /\ call' = [call EXCEPT ![s] =
          Finished("Storage.url", st, [name |-> name], <<>>, <<>>,
                   Return(url(clients[st], name, variant_or_default(<<>>))))]
    /\ UNCHANGED <<env, clients, storages, remote>>

\* LimitedStorageCloudflareImages.url_variant(name, variant)
Storage_url_variant(s, st, name, variant) ==
    /\ Free(s)
    /\ st \in storages
    /\ call' = [call EXCEPT ![s] =
          Finished("Storage.url_variant", st, [name |-> name, variant |-> variant],
                   <<>>, <<>>,
                   Return(url(clients[st], name, variant_or_default(<<variant>>))))]
    /\ UNCHANGED <<env, clients, storages, remote>>

----------------------------------------------------------------------------
(* The sequential specification: one call site, one call after the other.  *)

ClientIds == 1..MaxClients

\* A call of list_images that sends nothing has no outcome to draw.
ListOutcomes(pp, so) ==
    IF pp \in PerPageMin..PerPageMax /\ so \in {"asc", "desc"}
    THEN Outcomes
    ELSE {Response(OK, NotJson)}

Init ==
    /\ env = <<>>
    /\ clients = <<>>
    /\ storages = {}
    /\ call = [s \in Sites |-> Idle]
    /\ remote = {}

Next ==
    \/ LoadEnv
    \/ \E s \in SeqSites : \E kw \in {NoKwargs, ExplicitKwargs} : Construct(s, MainCls, kw)
    \/ \E s \in SeqSites : Storage_init(s)
    \/ \E s \in SeqSites, c \in ClientIds, o \in Outcomes : Call_get_usage_statistics(s, c, o)
    \/ \E s \in SeqSites, c \in ClientIds, o \in Outcomes : Call_get_batch_token(s, c, o)
    \/ \E s \in SeqSites, c \in ClientIds, i \in ImgIds, o \in Outcomes :
          Call_get_image_details(s, c, i, o)
    \/ \E s \in SeqSites, c \in ClientIds, i \in ImgIds, o \in Outcomes :
          Call_update_image(s, c, i, o)
    \/ \E s \in SeqSites, c \in ClientIds, i \in ImgIds, o \in Outcomes :
          Call_delete_image(s, c, i, o)
    \/ \E s \in SeqSites, c \in ClientIds, i \in ImgIds, b \in Images, o \in Outcomes :
          Call_upload_image(s, c, i, b, o)
    \/ \E s \in SeqSites, c \in ClientIds, i \in ImgIds, b \in Images, o \in Outcomes :
          Upsert_delete(s, c, i, b, o)
    \/ \E s \in SeqSites, o \in Outcomes : Upsert_upload(s, o)
    \/ \E s \in SeqSites, c \in ClientIds, pp \in PerPages, so \in SortOrders,
          ct \in ContinuationTokens :
          \E o \in ListOutcomes(pp, so) : Call_list_images(s, c, pp, so, ct, o)
    \/ \E s \in SeqSites, c \in ClientIds, o \in TokenOutcomes : create_batch_api(s, c, o)
    \/ \E s \in SeqSites, st \in ClientIds, i \in ImgIds, o \in ExistsOutcomes :
          Storage_exists(s, st, i, o)

Spec == Init /\ [][Next]_vars

----------------------------------------------------------------------------
(* The configuration specification: the environment is filled variable by  *)
(* variable, clients of both classes are constructed from every kind of    *)
(* keyword arguments, and their endpoint properties are read.              *)

NextCfg ==
    \/ \E k \in Required : SetEnv(k, EnvValues[k])
    \/ \E s \in SeqSites, cls \in Classes : \E kw \in InitKwargs(cls) : Construct(s, cls, kw)
    \/ \E s \in SeqSites : Storage_init(s)
    \/ \E s \in SeqSites, c \in ClientIds : Read_base_api(s, c)
    \/ \E s \in SeqSites, c \in ClientIds : Read_v2(s, c)
    \/ \E s \in SeqSites, c \in ClientIds, i \in ImgIds, v \in VariantArgs : Call_url(s, c, i, v)
    \/ \E s \in SeqSites, st \in ClientIds, i \in ImgIds : Storage_url(s, st, i)
    \/ \E s \in SeqSites, st \in ClientIds, i \in ImgIds, v \in Variants :
          Storage_url_variant(s, st, i, v)

SpecCfg == Init /\ [][NextCfg]_vars

----------------------------------------------------------------------------
(* The concurrent specification: two call sites share the clients; their   *)
(* calls, and the two requests of delete_then_upload_image, interleave in  *)
(* any order, and the caller may assign to a field of a client, as the     *)
(* doctest of base_api does.                                               *)

ConcImgIds == {"hi-bob"}
ConcTokenOutcomes ==
    {Response(OK, Json(JObject(("result" :> JObject(("token" :> JString(t))))))) :
        t \in BatchTokens}
    \cup {Failure(e) : e \in TransportErrors}

\* cf.is_batch = True
Set_is_batch(c) ==
    /\ c \in DOMAIN clients
    /\ ~clients[c].is_batch
    /\ clients' = [clients EXCEPT ![c].is_batch = TRUE]
    /\ UNCHANGED <<env, storages, call, remote>>

NextConc ==
    \/ LoadEnv
    \/ \E s \in Sites : Construct(s, MainCls, NoKwargs)
    \/ \E c \in ClientIds : Set_is_batch(c)
    \/ \E s \in Sites, c \in ClientIds, i \in ConcImgIds, o \in Outcomes :
          Call_get_image_details(s, c, i, o)
    \/ \E s \in Sites, c \in ClientIds, i \in ConcImgIds, b \in Images, o \in Outcomes :
          Upsert_delete(s, c, i, b, o)
    \/ \E s \in Sites, o \in Outcomes : Upsert_upload(s, o)
    \/ \E s \in Sites, c \in ClientIds, o \in ConcTokenOutcomes : create_batch_api(s, c, o)

SpecConc == Init /\ [][NextConc]_vars

----------------------------------------------------------------------------
(* The remote store.  The service keeps one image per id: DELETE removes   *)
(* a stored id and answers 404 for an id it does not hold, POST stores a   *)
(* new id and rejects an id that is already stored.  A request can also    *)
(* fail before the service acts on it: at transport level, or with a 5xx   *)
(* answer.                                                                 *)

Faults == {"none", "transport", "server"}
NoFaults == {"none"}
StoreImgIds == {"hi-bob"}
StoreImages == {"PNG-bytes", "JPG-bytes"}

\* The JSON envelope of a successful answer about image img_id.
ResultEnvelope(img_id) == Json(JObject(("result" :> JObject(("id" :> JString(img_id))))))
\* The JSON envelope of an error answer: success false, result null.
ErrorEnvelope == Json(JObject(("result" :> JNull)))

Stored(store, img_id) == \E r \in store : r.id = img_id

FaultAnswer(f) ==
    IF f = "transport" THEN Failure("TransportError") ELSE Response(500, ErrorEnvelope)

\* The answer to DELETE <base_api>/<img_id>, and the store after it.
delete_answer(store, img_id, f) ==
    IF f # "none" THEN FaultAnswer(f)
    ELSE IF Stored(store, img_id) THEN Response(OK, ResultEnvelope(img_id))
    ELSE Response(NOT_FOUND, ErrorEnvelope)

delete_effect(store, img_id, f) ==
    IF f # "none" THEN store ELSE {r \in store : r.id # img_id}

\* The answer to POST <base_api> with data id = img_id, and the store after it.
post_answer(store, img_id, f) ==
    IF f # "none" THEN FaultAnswer(f)
    ELSE IF Stored(store, img_id) THEN Response(409, ErrorEnvelope)
    ELSE Response(OK, ResultEnvelope(img_id))

post_effect(store, img_id, img, f) ==
    IF f # "none" \/ Stored(store, img_id) THEN store
    ELSE store \cup {[id |-> img_id, file |-> img]}

\* delete_then_upload_image against the store, first statement.
Upsert_delete_stored(s, c, img_id, img, f) ==
    /\ Free(s)
    /\ c \in DOMAIN clients
    /\ call' = [call EXCEPT ![s] =
          after_delete("delete_then_upload_image", c, [img_id |-> img_id, img |-> img],
                       delete_image(clients[c], img_id),
                       delete_answer(remote, img_id, f))]
    /\ remote' = delete_effect(remote, img_id, f)
    /\ UNCHANGED <<env, clients, storages>>

\* delete_then_upload_image against the store, second statement.
Upsert_upload_stored(s, f) ==
    /\ call[s].pc = "mid"
    /\ call[s].op = "delete_then_upload_image"
    /\ LET k == call[s]
           o == post_answer(remote, k.args.img_id, f)
       IN  /\ call' = [call EXCEPT ![s] =
                  Finished(k.op, k.self, k.args,
                           Append(k.reqs, upload_image(clients[k.self], k.args.img_id, k.args.img)),
                           Append(k.outs, o), Raw(o))]
           /\ remote' = post_effect(remote, k.args.img_id, k.args.img, f)
    /\ UNCHANGED <<env, clients, storages>>

\* self.api.url(img_id=res.json()["result"]["id"]) in _save, for the outcome
\* of the POST of upsert.
save_result(c, o) ==
    IF o.kind = "error" THEN Raise(o.exc, "transport")
    ELSE IF ~o.body.json THEN Raise("JSONDecodeError", "json")
    ELSE LET r == Subscript(o.body.doc, "result")
         IN  IF r.kind = "raise" THEN r
             ELSE LET i == Subscript(r.value, "id")
                  IN  IF i.kind = "raise" THEN i
                      ELSE IF i.value.t # "string" THEN Raise("TypeError", "id")
                      ELSE Return(url(c, i.value.v, "public"))

\* LimitedStorageCloudflareImages._save, the DELETE of self.api.upsert.
Storage_save_delete(s, st, name, content, f) ==
    /\ Free(s)
    /\ st \in storages
    /\ call' = [call EXCEPT ![s] =
          after_delete("Storage._save", st, [img_id |-> name, img |-> content],
                       delete_image(clients[st], name),
                       delete_answer(remote, name, f))]
    /\ remote' = delete_effect(remote, name, f)
    /\ UNCHANGED <<env, clients, storages>>

\* LimitedStorageCloudflareImages._save, the POST of self.api.upsert and the
\* URL built from its answer.
Storage_save_upload(s, f) ==
    /\ call[s].pc = "mid"
    /\ call[s].op = "Storage._save"
    /\ LET k == call[s]
           o == post_answer(remote, k.args.img_id, f)
       IN  /\ call' = [call EXCEPT ![s] =
                  Finished(k.op, k.self, k.args,
                           Append(k.reqs, upload_image(clients[k.self], k.args.img_id, k.args.img)),
                           Append(k.outs, o), save_result(clients[k.self], o))]
           /\ remote' = post_effect(remote, k.args.img_id, k.args.img, f)
    /\ UNCHANGED <<env, clients, storages>>

\* One call site; requests may fail.
NextStore ==
    \/ LoadEnv
    \/ \E s \in SeqSites : Construct(s, MainCls, NoKwargs)
    \/ \E s \in SeqSites : Storage_init(s)
    \/ \E s \in SeqSites, c \in ClientIds, i \in StoreImgIds, b \in StoreImages, f \in Faults :
          Upsert_delete_stored(s, c, i, b, f)
    \/ \E s \in SeqSites, f \in Faults : Upsert_upload_stored(s, f)
    \/ \E s \in SeqSites, st \in ClientIds, i \in StoreImgIds, b \in StoreImages, f \in Faults :
          Storage_save_delete(s, st, i, b, f)
    \/ \E s \in SeqSites, f \in Faults : Storage_save_upload(s, f)

SpecStore == Init /\ [][NextStore]_vars

\* Two call sites whose DELETE and POST requests interleave; no request fails.
NextRace ==
    \/ LoadEnv
    \/ \E s \in Sites : Construct(s, MainCls, NoKwargs)
    \/ \E s \in Sites, c \in ClientIds, i \in StoreImgIds, b \in StoreImages, f \in NoFaults :
          Upsert_delete_stored(s, c, i, b, f)
    \/ \E s \in Sites, f \in NoFaults : Upsert_upload_stored(s, f)

SpecRace == Init /\ [][NextRace]_vars

----------------------------------------------------------------------------
(* Properties.                                                             *)

\* Site s has finished a call of op.
Done(s, op) == call[s].pc = "done" /\ call[s].op = op

\* The client a finished call of site s was made on.
Self(s) == clients[call[s].self]

\* C1, as stated: every finished upsert / delete_then_upload_image has issued
\* exactly two requests, DELETE <base_api>/<id> and then POST <base_api>,
\* whatever the DELETE ended in, a transport failure included.
C1_AlwaysTwoRequests ==
    \A s \in Sites :
        Done(s, "delete_then_upload_image") =>
            /\ Len(call[s].reqs) = 2
            /\ call[s].reqs[1].method = "DELETE"
            /\ call[s].reqs[1].url = base_api(Self(s)) \o "/" \o call[s].args.img_id
            /\ call[s].reqs[2].method = "POST"
            /\ call[s].reqs[2].url = base_api(Self(s))

\* C1, amended: the first request of upsert / delete_then_upload_image is
\* DELETE <base_api>/<id>.  When the DELETE is answered, with any status, the
\* call issues exactly one more request, POST <base_api>, and ends with it.
\* When the DELETE fails at transport level the call ends there, raising that
\* failure: one request, no POST.  There is never a third request.
C1_DeleteThenPost ==
    \A s \in Sites :
        call[s].op = "delete_then_upload_image" =>
            LET k == call[s] IN
            /\ Len(k.reqs) \in {1, 2}
            /\ Len(k.outs) = Len(k.reqs)
            /\ k.reqs[1].method = "DELETE"
            /\ k.reqs[1].url = base_api(Self(s)) \o "/" \o k.args.img_id
            /\ k.pc = "mid" => Len(k.reqs) = 1 /\ k.outs[1].kind = "response"
            /\ (k.pc = "done" /\ k.outs[1].kind = "response") =>
                   /\ Len(k.reqs) = 2
                   /\ k.reqs[2].method = "POST"
                   /\ k.reqs[2].url = base_api(Self(s))
                   /\ k.reqs[2].data = ("id" :> k.args.img_id)
            /\ (k.pc = "done" /\ k.outs[1].kind = "error") =>
                   /\ Len(k.reqs) = 1
                   /\ k.result.kind = "raise"
                   /\ k.result.exc = k.outs[1].exc

\* C1 witness: the DELETE was answered 404 and the POST was issued.
C1_Witness ==
    \E s \in Sites :
        /\ Done(s, "delete_then_upload_image")
        /\ call[s].outs[1].kind = "response"
        /\ call[s].outs[1].status_code = 404
        /\ Len(call[s].reqs) = 2
        /\ call[s].reqs[2].method = "POST"

\* u starts with prefix.
StartsWith(u, prefix) ==
    Len(u) >= Len(prefix) /\ SubSeq(u, 1, Len(prefix)) = prefix

\* C2: every request of a call made on a batch-mode client (is_batch = True),
\* list_images included, goes to the batch host https://batch.imagedelivery.net
\* and none to the account-scoped api.cloudflare.com endpoint.
C2_BatchHostOnly ==
    \A s \in Sites :
        (call[s].self \in DOMAIN clients /\ Self(s).is_batch) =>
            \A i \in DOMAIN call[s].reqs :
                /\ StartsWith(call[s].reqs[i].url, "https://batch.imagedelivery.net")
                /\ ~StartsWith(call[s].reqs[i].url, "https://api.cloudflare.com")

\* The token of a batch-token response body, <<T>>, or <<>> when the body is
\* not JSON or holds no string at result.token.
TokenIn(o) ==
    IF o.kind # "response" \/ ~o.body.json THEN <<>>
    ELSE LET d == o.body.doc IN
         IF d.t # "object" \/ "result" \notin DOMAIN d.members THEN <<>>
         ELSE LET r == d.members["result"] IN
              IF r.t # "object" \/ "token" \notin DOMAIN r.members THEN <<>>
              ELSE IF r.members["token"].t # "string" THEN <<>>
              ELSE <<r.members["token"].v>>

\* C3: when the batch-token response holds result.token = T, create_batch_api
\* returns a new client, distinct from the one it was called on, with
\* is_batch = True and api_token = T.
C3_ReturnsBatchClient ==
    \A s \in Sites :
        (Done(s, "create_batch_api") /\ TokenIn(call[s].outs[1]) # <<>>) =>
            /\ call[s].result.kind = "return"
            /\ call[s].result.value \in DOMAIN clients
            /\ call[s].result.value # call[s].self
            /\ clients[call[s].result.value].is_batch
            /\ clients[call[s].result.value].api_token = TokenIn(call[s].outs[1])[1]

\* C6: list_images issues a request exactly when 10 <= per_page <= 10000 and
\* sort_order is "asc" or "desc"; otherwise it raises and sends nothing.
C6_ListImagesValidation ==
    \A s \in Sites :
        Done(s, "list_images") =>
            LET k  == call[s]
                ok == /\ 10 <= k.args.per_page /\ k.args.per_page <= 10000
                      /\ k.args.sort_order \in {"asc", "desc"}
            IN  /\ ok => Len(k.reqs) = 1
                /\ ~ok => /\ k.reqs = <<>>
                          /\ k.result.kind = "raise"
                          /\ k.result.exc = "Exception"

\* C6 witness: the boundary per_page = 10 was accepted and the request sent.
C6_Witness ==
    \E s \in Sites :
        /\ Done(s, "list_images")
        /\ call[s].args.per_page = 10
        /\ Len(call[s].reqs) = 1
        /\ call[s].result.kind = "return"

\* C7: exists(name) issues one GET for the name; a 404 response gives False,
\* a 200 response gives True, any other status raises; it returns only for
\* 200 and 404.
C7_ExistsStatusMapping ==
    \A s \in Sites :
        Done(s, "Storage.exists") =>
            LET k == call[s] IN
            /\ Len(k.reqs) = 1
            /\ k.reqs[1].method = "GET"
            /\ k.reqs[1].url = base_api(Self(s)) \o "/" \o k.args.name
            /\ k.result.kind \in {"return", "raise"}
            /\ k.result.kind = "return" =>
                   /\ k.outs[1].kind = "response"
                   /\ k.outs[1].status_code \in {200, 404}
                   /\ k.result.value = (k.outs[1].status_code = 200)
            /\ (k.outs[1].kind = "response" /\ k.outs[1].status_code \in {200, 404}) =>
                   k.result.kind = "return"

\* C7 witness: the GET was answered 500 and exists raised.
C7_Witness ==
    \E s \in Sites :
        /\ Done(s, "Storage.exists")
        /\ call[s].outs[1].kind = "response"
        /\ call[s].outs[1].status_code = 500
        /\ call[s].result.kind = "raise"

\* The credentials neither the keyword arguments nor the environment of a
\* finished construction provided.
Absent(k) ==
    {r \in {"CF_ACCT_ID", "CF_IMG_HASH", "CF_IMG_TOKEN"} :
        r \notin DOMAIN k.args.kw /\ r \notin DOMAIN k.args.env}

\* The value a finished construction was given for credential r.
Given(k, r) == IF r \in DOMAIN k.args.kw THEN k.args.kw[r] ELSE k.args.env[r]

\* The field of a client that credential r sets.
Credential(c, r) ==
    IF r = "CF_ACCT_ID" THEN c.account_id
    ELSE IF r = "CF_IMG_HASH" THEN c.cf_img_hash
    ELSE c.api_token

Constructions == {"__init__", "Storage.__init__"}

\* C4: construction with some of the three credentials absent fails, sends
\* no request, and its error names exactly the absent credentials, all of
\* them; with all three present it succeeds.
C4_MissingCredentials ==
    \A s \in Sites :
        (call[s].pc = "done" /\ call[s].op \in Constructions) =>
            LET k == call[s] IN
            /\ k.reqs = <<>>
            /\ Absent(k) # {} =>
                   /\ k.result.kind = "raise"
                   /\ k.result.exc = "ValidationError"
                   /\ {x.loc : x \in k.result.info} = Absent(k)
            /\ Absent(k) = {} =>
                   /\ k.result.kind = "return"
                   /\ k.result.value \in DOMAIN clients

\* C4 witness: only CF_ACCT_ID was in the environment, and the error names
\* the two other credentials.
C4_Witness ==
    \E s \in Sites :
        /\ Done(s, "__init__")
        /\ Absent(call[s]) = {"CF_IMG_HASH", "CF_IMG_TOKEN"}
        /\ call[s].result.kind = "raise"
        /\ Cardinality(call[s].result.info) = 2

\* C5, as stated: construction with a credential present but equal to the
\* empty string fails with a configuration error.
C5_EmptyRejected ==
    \A s \in Sites :
        (call[s].pc = "done" /\ call[s].op \in Constructions) =>
            LET k == call[s] IN
            (\E r \in Required \ Absent(k) : Given(k, r) = "") =>
                k.result.kind = "raise"

\* C5, amended: a credential present but equal to the empty string counts as
\* present.  Such a construction fails only when another credential is
\* absent; otherwise it succeeds, without any request, and the new client
\* holds the empty string in that field.
C5_EmptyAccepted ==
    \A s \in Sites :
        (call[s].pc = "done" /\ call[s].op \in Constructions) =>
            LET k == call[s] IN
            \A r \in Required \ Absent(k) :
                Given(k, r) = "" =>
                    /\ k.reqs = <<>>
                    /\ k.result.kind = "raise" <=> Absent(k) # {}
                    /\ k.result.kind = "raise" => r \notin {x.loc : x \in k.result.info}
                    /\ k.result.kind = "return" =>
                           Credential(clients[k.result.value], r) = ""

\* C5 witness: a client constructed with the empty string as its API token.
C5_Witness ==
    \E s \in Sites :
        /\ Done(s, "__init__")
        /\ "CF_IMG_TOKEN" \in DOMAIN call[s].args.kw
        /\ call[s].args.kw["CF_IMG_TOKEN"] = ""
        /\ call[s].result.kind = "return"
        /\ clients[call[s].result.value].api_token = ""

\* The step completes a call of create_batch_api at site s.
CompletesBatch(s) ==
    /\ call'[s].pc = "done"
    /\ call'[s].op = "create_batch_api"
    /\ \/ call[s].op # "create_batch_api"
       \/ call[s].self # call'[s].self
       \/ call[s].outs # call'[s].outs
       \/ clients' # clients

\* The outcome of the batch-token request is a transport failure, a body
\* that is not JSON, or JSON without a result.token field.
NoTokenField(o) ==
    \/ o.kind = "error"
    \/ /\ o.kind = "response"
       /\ \/ ~o.body.json
          \/ /\ o.body.json
             /\ \/ o.body.doc.t # "object"
                \/ /\ o.body.doc.t = "object"
                   /\ \/ "result" \notin DOMAIN o.body.doc.members
                      \/ /\ "result" \in DOMAIN o.body.doc.members
                         /\ LET r == o.body.doc.members["result"]
                            IN  \/ r.t # "object"
                                \/ /\ r.t = "object"
                                   /\ "token" \notin DOMAIN r.members

\* C8: when the batch-token request fails at transport level, or the body
\* is not JSON, or the JSON holds no result.token (result missing, null or
\* without a token), create_batch_api raises an error that wraps the
\* original failure, returns no client, and constructs none.
C8_BatchTokenFailureWrapped ==
    [][\A s \in Sites :
        (CompletesBatch(s) /\ NoTokenField(call'[s].outs[1])) =>
            /\ call'[s].result.kind = "raise"
            /\ call'[s].result.exc = "Exception"
            /\ call'[s].result.info.context.kind = "raise"
            /\ call'[s].outs[1].kind = "error" =>
                   call'[s].result.info.context.exc = call'[s].outs[1].exc
            /\ clients' = clients]_vars

\* C8 witness: the body was a JSON envelope with result null, and
\* create_batch_api raised the wrapped TypeError.
C8_Witness ==
    \E s \in Sites :
        /\ Done(s, "create_batch_api")
        /\ call[s].outs[1].kind = "response"
        /\ call[s].outs[1].body = Json(JObject(("result" :> JNull)))
        /\ call[s].result.kind = "raise"
        /\ call[s].result.exc = "Exception"
        /\ call[s].result.info.context.exc = "TypeError"

\* The methods that issue one request and return its response.
Primitives ==
    {"get_usage_statistics", "get_batch_token", "get_image_details",
     "update_image", "delete_image", "upload_image"}

\* A finished call of a primitive; list_images is one when its arguments pass.
IsPrimitiveCall(k) ==
    /\ k.pc = "done"
    /\ \/ k.op \in Primitives
       \/ /\ k.op = "list_images"
          /\ 10 <= k.args.per_page /\ k.args.per_page <= 10000
          /\ k.args.sort_order \in {"asc", "desc"}

\* The method and URL the claim gives for the request of primitive call k on client c.
Expected(k, c) ==
    CASE k.op = "get_usage_statistics" -> <<"GET", base_api(c) \o "/stats">>
      [] k.op = "get_batch_token"      -> <<"GET", base_api(c) \o "/batch_token">>
      [] k.op = "get_image_details"    -> <<"GET", base_api(c) \o "/" \o k.args.img_id>>
      [] k.op = "update_image"         -> <<"PATCH", base_api(c) \o "/" \o k.args.img_id>>
      [] k.op = "delete_image"         -> <<"DELETE", base_api(c) \o "/" \o k.args.img_id>>
      [] k.op = "upload_image"         -> <<"POST", base_api(c)>>
      [] k.op = "list_images"          ->
            <<"GET", v2(c) \o "?per_page=" \o ToString(k.args.per_page)
                     \o "&sort_order=" \o k.args.sort_order>>

\* C9: a primitive call issues exactly one request, also when it fails, with
\* the header Authorization: Bearer <api_token>, the method and URL of its
\* operation (upload: form field id and file field "file" named after the
\* id; list_images: the v2 endpoint), and returns the response it got.
C9_OneRequestRawResponse ==
    \A s \in Sites :
        IsPrimitiveCall(call[s]) =>
            LET k == call[s]
                c == Self(s)
                r == k.reqs[1]
            IN  /\ Len(k.reqs) = 1
                /\ Len(k.outs) = 1
                /\ r.headers = [Authorization |-> "Bearer " \o c.api_token]
                /\ r.method = Expected(k, c)[1]
                /\ IF k.op = "list_images"
                   THEN StartsWith(r.url, Expected(k, c)[2])
                   ELSE r.url = Expected(k, c)[2]
                /\ IF k.op = "upload_image"
                   THEN /\ r.data = ("id" :> k.args.img_id)
                        /\ DOMAIN r.files = {"file"}
                        /\ r.files["file"] = <<k.args.img_id, k.args.img>>
                   ELSE r.data = <<>> /\ r.files = <<>>
                /\ k.outs[1].kind = "response" =>
                       k.result.kind = "return" /\ k.result.value = k.outs[1]
                /\ k.outs[1].kind = "error" =>
                       k.result.kind = "raise" /\ k.result.exc = k.outs[1].exc

\* C9 witness: an upload answered with a response, which the call returned.
C9_Witness ==
    \E s \in Sites :
        /\ Done(s, "upload_image")
        /\ Len(call[s].reqs) = 1
        /\ call[s].reqs[1].method = "POST"
        /\ call[s].result.kind = "return"
        /\ call[s].result.value.status_code = 200

\* C10: base_api is <api-root>/client/<client_api_ver>/accounts/<account_id>/
\* images/<images_api_ver> with batch mode off and the batch host with batch
\* mode on, whatever the other fields; v2 is the same account root followed
\* by images/v2, whatever images_api_ver.
C10_Endpoints ==
    \A s \in Sites :
        /\ Done(s, "base_api") =>
               LET c == Self(s) IN
               call[s].result.value =
                   IF c.is_batch
                   THEN "https://batch.imagedelivery.net"
                   ELSE "https://api.cloudflare.com/client/" \o c.client_api_ver
                        \o "/accounts/" \o c.account_id \o "/images/" \o c.images_api_ver
        /\ Done(s, "v2") =>
               LET c == Self(s) IN
               call[s].result.value =
                   "https://api.cloudflare.com/client/" \o c.client_api_ver
                   \o "/accounts/" \o c.account_id \o "/images/v2"

\* C10 witness: base_api read on a client with its own account and versions,
\* batch mode off.
C10_Witness ==
    \E s \in Sites :
        /\ Done(s, "base_api")
        /\ ~Self(s).is_batch
        /\ Self(s).images_api_ver = "v3"
        /\ call[s].result.value = "https://api.cloudflare.com/client/v5/accounts/ACC2/images/v3"

\* The delivery URL the claim names: <delivery-root>/<cf_img_hash>/<id>/<variant>.
DeliveryUrl(hash, img_id, variant) ==
    "https://imagedelivery.net/" \o hash \o "/" \o img_id \o "/" \o variant

UrlOps == {"url", "Storage.url", "Storage.url_variant"}

\* The variant a finished url call asked for; "public" when it gave none.
AskedVariant(k) ==
    IF k.op = "Storage.url" THEN "public"
    ELSE IF k.op = "Storage.url_variant" THEN k.args.variant
    ELSE IF k.args.variant = <<>> THEN "public" ELSE k.args.variant[1]

AskedId(k) == IF k.op = "url" THEN k.args.img_id ELSE k.args.name

\* C11: url(id, variant), and the storage adapter's url(name) and
\* url_variant(name, variant), return <delivery-root>/<cf_img_hash>/<id>/<variant>
\* with variant defaulting to "public", send no request, and give the same
\* string on two clients that share cf_img_hash, whatever their is_batch,
\* account_id and api_token.
C11_UrlComposition ==
    /\ \A s \in Sites :
          (call[s].pc = "done" /\ call[s].op \in UrlOps) =>
              /\ call[s].result = Return(DeliveryUrl(Self(s).cf_img_hash,
                                                     AskedId(call[s]), AskedVariant(call[s])))
              /\ call[s].reqs = <<>>
    /\ \A c1, c2 \in DOMAIN clients : \A i \in ImgIds, v \in Variants :
          clients[c1].cf_img_hash = clients[c2].cf_img_hash =>
              url(clients[c1], i, v) = url(clients[c2], i, v)

\* C11 witness: a batch-mode client configured by keyword arguments has
\* returned the avatar URL of an image.
C11_Witness ==
    \E s \in Sites :
        /\ Done(s, "url")
        /\ Self(s).is_batch
        /\ Self(s).cf_img_hash = "H2"
        /\ call[s].args.variant = <<"avatar">>
        /\ call[s].result = Return("https://imagedelivery.net/H2/hi-bob/avatar")

\* The requests site s issues in the step.
IssuedNow(s) ==
    SubSeq(call'[s].reqs,
           (IF call[s].pc = "mid" THEN Len(call[s].reqs) ELSE 0) + 1,
           Len(call'[s].reqs))

\* The requests the step of site s issues when its call runs alone on the
\* client as it is now.
IssuedAlone(s) ==
    LET k  == call'[s]
        cl == clients[k.self]
    IN  IF k.op = "delete_then_upload_image"
        THEN IF call[s].pc = "mid"
             THEN <<upload_image(cl, k.args.img_id, k.args.img)>>
             ELSE <<delete_image(cl, k.args.img_id)>>
        ELSE IF k.op = "get_image_details" THEN <<get_image_details(cl, k.args.img_id)>>
        ELSE IF k.op = "create_batch_api" THEN <<get_batch_token(cl)>>
        ELSE <<>>

\* C12 as stated: no step changes a field of an existing client, and the
\* two requests of a finished delete_then_upload_image go to one endpoint,
\* as they do when the call runs alone.
C12_FieldsNeverChange ==
    [][/\ \A c \in DOMAIN clients : c \in DOMAIN clients' /\ clients'[c] = clients[c]
       /\ \A s \in Sites :
             (call'[s].pc = "done" /\ call'[s].op = "delete_then_upload_image"
              /\ Len(call'[s].reqs) = 2) =>
                 StartsWith(call'[s].reqs[1].url, call'[s].reqs[2].url)]_vars

\* C12 amended: no step of a call writes a field of an existing client,
\* under any interleaving of the calls of two sites; a field changes only
\* by the caller's assignment cf.is_batch = True, which is no step of a
\* call; and every request is built from the fields the client has when
\* the request is issued.
C12_OnlyAssignmentWrites ==
    [][/\ \A c \in DOMAIN clients :
             /\ c \in DOMAIN clients'
             /\ clients'[c] # clients[c] =>
                   /\ call' = call
                   /\ clients'[c] = [clients[c] EXCEPT !.is_batch = TRUE]
       /\ \A s \in Sites :
             call'[s] # call[s] =>
                 /\ clients' = clients \/ clients' = Append(clients, clients'[Len(clients')])
                 /\ call'[s].self \in DOMAIN clients => IssuedNow(s) = IssuedAlone(s)]_vars

\* C12 witness: while site s1 was between the DELETE and the POST of
\* delete_then_upload_image, is_batch of its client was assigned; site s2
\* has run a call on the same client; the DELETE went to the account
\* endpoint and the POST to the batch host.
C12_Witness ==
    /\ Done("s1", "delete_then_upload_image")
    /\ Len(call["s1"].reqs) = 2
    /\ StartsWith(call["s1"].reqs[1].url, CF_API)
    /\ call["s1"].reqs[2].url = CF_BATCH
    /\ call["s2"].pc = "done"
    /\ call["s2"].op = "get_image_details"
    /\ call["s2"].self = call["s1"].self

UpsertOps == {"delete_then_upload_image", "Storage._save"}

\* The request was answered with status 200.
Accepted(o) == o.kind = "response" /\ o.status_code = OK

\* C13: upsert is not transactional.  When the image was stored, the DELETE
\* succeeded and the POST then failed, upsert has made no further request,
\* the image id is absent from the remote store when upsert finishes, and
\* the caller receives the failure of the POST: the exception of the
\* transport, or the error response itself (which _save fails to read).
\* When the DELETE is answered 404 because the image is not stored, the POST
\* is still issued.
C13_NoRollback ==
    \A s \in SeqSites :
        (call[s].pc = "done" /\ call[s].op \in UpsertOps) =>
            LET k == call[s] IN
            /\ (Len(k.outs) = 2 /\ Accepted(k.outs[1]) /\ ~Accepted(k.outs[2])) =>
                  /\ Len(k.reqs) = 2
                  /\ k.reqs[1].method = "DELETE"
                  /\ k.reqs[2].method = "POST"
                  /\ ~Stored(remote, k.args.img_id)
                  /\ k.op = "delete_then_upload_image" => k.result = Raw(k.outs[2])
                  /\ k.op = "Storage._save" => k.result.kind = "raise"
                  /\ k.outs[2].kind = "error" => k.result = Raise(k.outs[2].exc, "transport")
            /\ (k.outs[1].kind = "response" /\ k.outs[1].status_code = NOT_FOUND) =>
                  /\ Len(k.reqs) = 2
                  /\ k.reqs[2].method = "POST"
                  /\ k.reqs[2].data = [id |-> k.args.img_id]

\* C13 witness: the image was stored by an earlier upsert; this upsert
\* deleted it, its POST was answered 500, and the store holds nothing.
C13_Witness ==
    \E s \in SeqSites :
        /\ Done(s, "delete_then_upload_image")
        /\ Len(call[s].outs) = 2
        /\ Accepted(call[s].outs[1])
        /\ call[s].outs[2] = Response(500, ErrorEnvelope)
        /\ call[s].result = Return(Response(500, ErrorEnvelope))
        /\ remote = {}

\* Every call site has finished an upsert of img_id.
AllUpserted(img_id) ==
    \A s \in Sites : Done(s, "delete_then_upload_image") /\ call[s].args.img_id = img_id

\* C14: against a store that rejects a POST of a stored id, and without
\* failing requests, the DELETE of upsert makes its own POST accepted, also
\* when the requests of two upsert calls for one id interleave; when both
\* calls have finished the store holds exactly one image under that id.
C14_OwnPostAccepted ==
    /\ \A s \in Sites :
          Done(s, "delete_then_upload_image") =>
              /\ Len(call[s].outs) = 2
              /\ Accepted(call[s].outs[2])
    /\ \A i \in StoreImgIds :
          AllUpserted(i) => Cardinality({r \in remote : r.id = i}) = 1

\* The fields a derived client is to share with the client it comes from.
SharedFields == {"account_id", "cf_img_hash", "client_api_ver", "images_api_ver", "timeout"}

\* C15: the client create_batch_api returns has the account_id, cf_img_hash,
\* client_api_ver, images_api_ver and timeout of the client it was derived
\* from, however that one was configured, so url(id, variant) gives the same
\* result on both.
C15_DerivedKeepsConfig ==
    \A s \in Sites :
        (Done(s, "create_batch_api") /\ call[s].result.kind = "return") =>
            LET orig    == Self(s)
                derived == clients[call[s].result.value]
            IN  /\ \A f \in SharedFields : derived[f] = orig[f]
                /\ \A i \in ImgIds, v \in Variants : url(derived, i, v) = url(orig, i, v)

====
